---- MODULE Spec2Model ----
(***************************************************************************)
(* Model of the URL summarizer plugin (src/main.py): the message filter of *)
(* on_message, the URL extractor, the fetch-with-retry loop of             *)
(* _get_url_summary, the response parsing of _fetch_summary_from_service   *)
(* and the refinement stage _postprocess_with_llm.                         *)
(*                                                                         *)
(* Text is a sequence of characters; a character is a one-element string,  *)
(* and a non-ASCII character is written as a short name ("FW)" is the      *)
(* full-width closing parenthesis, "ZH" a Chinese ideograph).              *)
(***************************************************************************)
EXTENDS Integers, Sequences, FiniteSets, TLC

VARIABLES
    cfg,        \* self.config and self.summary_prefix
    msg,        \* msg[t]: the event task t handles
    pc,         \* pc[t]: where task t is suspended
    decision,   \* decision[t]: the rule at which on_message stopped
    extracted,  \* extracted[t]: _extract_urls has been called
    url,        \* url[t]: the list _extract_urls returned
    attempt,    \* attempt[t]: the loop variable of _get_url_summary
    calls,      \* calls[t]: upstream requests started for the message
    sleeps,     \* sleeps[t]: the durations of the asyncio.sleep calls so far
    inflight,   \* inflight[t]: the upstream response on its way to task t
    fails,      \* fails[t]: iterations of the retry loop that raised
    badOnly,    \* badOnly[t]: every response so far was 2xx and malformed
    fetched,    \* fetched[t]: what _fetch_summary_from_service returned last
    llmCalls,   \* llmCalls[t]: the text_chat calls made, with their input
    result,     \* result[t]: what _get_url_summary returned
    completion, \* completion[t]: what text_chat gave last
    provider,   \* provider[t]: what the provider lookup gave last
    outputs,    \* outputs[t]: the results on_message yielded
    echo,       \* echo[t]: the text of msg[t] was taken from the chat
    chat,       \* the text emitted into the chat last, if any
    cancelled,  \* cancelled[t]: the suspension point where the host
                \* cancelled task t, "no" while it has not
    fault,      \* fault[t]: the statement of on_message that raises for
                \* msg[t], "none" when all of them run normally
    caught      \* caught[t]: the except clause of on_message that caught
                \* an exception, "none" when none has

vars == <<cfg, msg, pc, decision, extracted, url, attempt, calls,
          sleeps, inflight, fails, badOnly, fetched, llmCalls, result,
          completion, provider, outputs, echo, chat, cancelled, fault, caught>>

(***************************************************************************)
(* Bounds of the model.                                                    *)
(***************************************************************************)
MaxRetries == 3

\* The longest run of characters that follows a URL in an extractor input.
MaxTail == 2

\* self.config.get("max_retries", 2)
DefaultRetries == 2

(***************************************************************************)
(* Characters and strings.                                                 *)
(***************************************************************************)
\* "LF" is the line feed, "TAB" the tabulator.
NL == "LF"

Whitespace == {" ", NL, "TAB"}

Letters == {"a", "b", "c", "d", "g", "h", "k", "p", "q", "s", "t", "x", "y",
            "H", "P", "S", "T"}

Digits == {"0", "1", "2", "3", "4", "5", "6", "7", "8", "9"}

\* Code points of the common Chinese ideograph block: "ZH" is any of them,
\* "NEI" "RONG" "ZHAI" "YAO" are the four ideographs of the summary marker.
ChineseChars == {"ZH", "NEI", "RONG", "ZHAI", "YAO"}

Range(s) == {s[i] : i \in DOMAIN s}

Max(S) == CHOOSE x \in S : \A y \in S : y <= x

Min(S) == CHOOSE x \in S : \A y \in S : x <= y

\* Python's `sub in s`.
Contains(sub, s) ==
    \E i \in 0..(Len(s) - Len(sub)) : SubSeq(s, i + 1, i + Len(sub)) = sub

\* Python's any(k in s for k in keywords).
AnyIn(keywords, s) == \E i \in DOMAIN keywords : Contains(keywords[i], s)

\* Python's s.count(c) for a single character c.
Count(s, c) == Cardinality({i \in DOMAIN s : s[i] = c})

\* Python's s.rstrip(chars).
RStrip(s, chars) ==
    LET keep == {i \in DOMAIN s : s[i] \notin chars}
    IN  IF keep = {} THEN <<>> ELSE SubSeq(s, 1, Max(keep))

\* Python's s.lstrip(chars).
LStrip(s, chars) ==
    LET keep == {i \in DOMAIN s : s[i] \notin chars}
    IN  IF keep = {} THEN <<>> ELSE SubSeq(s, Min(keep), Len(s))

\* Python's s.strip().
Strip(s) == LStrip(RStrip(s, Whitespace), Whitespace)

\* Python's sep.join(parts).
RECURSIVE Join(_, _)
Join(parts, sep) ==
    IF parts = <<>> THEN <<>>
    ELSE IF Len(parts) = 1 THEN parts[1]
    ELSE parts[1] \o <<sep>> \o Join(Tail(parts), sep)

\* Optional[str]: None, or a string.
None == [some |-> FALSE, val |-> <<>>]

Some(s) == [some |-> TRUE, val |-> s]

\* Python truthiness of an Optional[str].
Truthy(o) == o.some /\ o.val # <<>>

(***************************************************************************)
(* URL extraction: url_pattern and _extract_urls.                          *)
(* "SQ" is the apostrophe, "DQ" the double quote; "FW(" "FW)" are the      *)
(* full-width parentheses, "FW," "FW." "FW!" "FW?" "FW:" "FW;" the         *)
(* full-width punctuation marks, "CJ," the ideographic comma, "CJ]" "CJ>"  *)
(* and "CJ[" "CJ<" the CJK brackets, "RSQ" "RDQ" the right curly quotes.   *)
(***************************************************************************)
\* The class of both look-arounds of url_pattern.
UrlChars == Letters \cup Digits \cup
            {".", "_", "~", "%", "!", "$", "&", "SQ", "*", "+", ",", ";",
             "=", ":", "@", "/", "?", "#", "-"}

\* [A-Za-z0-9-]
LabelChars == Letters \cup Digits \cup {"-"}

\* The characters [^\s<>"\]] excludes from the path.
PathStop == Whitespace \cup {"<", ">", "DQ", "]"}

\* re.IGNORECASE on the scheme.
Lower(c) ==
    CASE c = "H" -> "h" [] c = "T" -> "t" [] c = "P" -> "p" [] c = "S" -> "s"
      [] OTHER -> c

At(s, i) == IF i \in DOMAIN s THEN s[i] ELSE "EOF"

\* The last index of the longest run of characters of `set` starting at k
\* (k - 1 when the run is empty).
RunEnd(s, k, set) ==
    LET bad == {j \in k..Len(s) : s[j] \notin set}
    IN  IF bad = {} THEN Len(s) ELSE Min(bad) - 1

\* https?:// at i: the index of its last character, 0 when it does not match.
SchemeEnd(s, i) ==
    LET lit(k, str) == \A j \in 1..Len(str) : Lower(At(s, k + j - 1)) = str[j]
    IN  IF ~lit(i, <<"h", "t", "t", "p">>) THEN 0
        ELSE IF lit(i + 4, <<"s", ":", "/", "/">>) THEN i + 7
        ELSE IF lit(i + 4, <<":", "/", "/">>) THEN i + 6
        ELSE 0

\* (?:[A-Za-z0-9-]+\.)+[A-Za-z0-9-]+ at k, matched greedily: the index of
\* its last character, 0 when it does not match. A shorter host is always
\* followed by a label character or a dot, so the rest of the pattern can
\* only match after the longest one.
HostEnd(s, k) ==
    LET run   == RunEnd(s, k, LabelChars \cup {"."})
        empty == {j \in k..run : s[j] = "." /\ (j = k \/ s[j - 1] = ".")}
        stop  == IF empty = {} THEN run ELSE Min(empty) - 1
        e     == IF stop >= k /\ s[stop] = "." THEN stop - 1 ELSE stop
    IN  IF \E j \in k..e : s[j] = "." THEN e ELSE 0

\* (?::\d{2,5})? after the host ending at e: the index of the last character
\* matched so far, 0 when a colon follows that no port can consume.
PortEnd(s, e) ==
    IF At(s, e + 1) # ":" THEN e
    ELSE LET d == RunEnd(s, e + 2, Digits) - (e + 1)
         IN  IF d >= 2 /\ d <= 5 THEN e + 1 + d ELSE 0

\* (?:/[^\s<>"\]]*)? and the right boundary after index p.
PathEnd(s, p) ==
    IF At(s, p + 1) = "/" THEN RunEnd(s, p + 2, {c \in Range(s) : c \notin PathStop})
    ELSE IF At(s, p + 1) \in UrlChars THEN 0
    ELSE p

\* url_pattern matched at position i: the index of the last character of the
\* match, 0 when there is no match at i.
MatchEndAt(s, i) ==
    IF i > 1 /\ s[i - 1] \in UrlChars THEN 0
    ELSE LET a == SchemeEnd(s, i)
         IN  IF a = 0 THEN 0
             ELSE LET e == HostEnd(s, a + 1)
                  IN  IF e = 0 THEN 0
                      ELSE LET p == PortEnd(s, e)
                           IN  IF p = 0 THEN 0 ELSE PathEnd(s, p)

\* url_pattern.search(text): the leftmost match, None when there is none.
Search(text) ==
    LET starts == {i \in DOMAIN text : MatchEndAt(text, i) > 0}
    IN  IF starts = {} THEN None
        ELSE Some(SubSeq(text, Min(starts), MatchEndAt(text, Min(starts))))

TrailingPunct == {".", ",", ";", ":", "!", "?", "FW,", "FW.", "FW!", "FW?",
                  "FW:", "FW;", "CJ,", ")", "]", "CJ]", "CJ>", "RSQ", "RDQ",
                  "SQ", "DQ"}

LeftWrappers == {"<", "(", "[", "FW(", "CJ[", "CJ<"}

\* A round that keeps the last `lack` characters instead of dropping them.
DropExcessKeepsEnd(u, left, right) ==
    LET lack == Count(u, right) - Count(u, left)
    IN  IF lack > 0 THEN SubSeq(u, Len(u) - lack + 1, Len(u)) ELSE u

\* One round of the parenthesis loop of _extract_urls.
DropExcess(u, left, right) ==
    LET lack == Count(u, right) - Count(u, left)
    IN  IF lack > 0 THEN SubSeq(u, 1, Len(u) - lack) ELSE u

\* urlparse(url): the scheme and the authority of the split.
UrlParse(u) ==
    LET colons == {i \in DOMAIN u : u[i] = ":"}
        c      == IF colons = {} THEN 0 ELSE Min(colons)
        okSch  == /\ c > 1
                  /\ u[1] \in Letters
                  /\ \A i \in 1..(c - 1) : u[i] \in Letters \cup Digits \cup {"+", "-", "."}
        scheme == IF okSch THEN [i \in 1..(c - 1) |-> Lower(u[i])] ELSE <<>>
        rest   == IF okSch THEN SubSeq(u, c + 1, Len(u)) ELSE u
        slash  == Len(rest) >= 2 /\ rest[1] = "/" /\ rest[2] = "/"
        ends   == {i \in 3..Len(rest) : rest[i] \in {"/", "?", "#"}}
        netloc == IF ~slash THEN <<>>
                  ELSE IF ends = {} THEN SubSeq(rest, 3, Len(rest))
                  ELSE SubSeq(rest, 3, Min(ends) - 1)
    IN  [scheme |-> scheme, netloc |-> netloc]

_is_valid_url(u) == UrlParse(u).scheme # <<>> /\ UrlParse(u).netloc # <<>>

\* _extract_urls(text): a list of at most one URL.
_extract_urls(text) ==
    LET match == Search(text)
    IN  IF ~match.some THEN <<>>
        ELSE LET u0 == RStrip(match.val, TrailingPunct)
                 u1 == DropExcess(u0, "(", ")")
                 u2 == DropExcess(u1, "FW(", "FW)")
                 u3 == LStrip(u2, LeftWrappers)
             IN  IF _is_valid_url(u3) THEN <<u3>> ELSE <<>>

(***************************************************************************)
(* Configuration and incoming messages.                                    *)
(***************************************************************************)
\* The second fallback marker of _is_summary_message, and the first one,
\* which is also the default of summary_prefix ("MEMO" is the memo emoji).
PlainMarker == <<"NEI", "RONG", "ZHAI", "YAO", "FW:">>

DefaultPrefix == <<"MEMO">> \o PlainMarker

CustomPrefix == <<"P", ":">>

UrlX == <<"h", "t", "t", "p", ":", "/", "/", "a", ".", "b", "/", "x">>

UrlY == <<"h", "t", "t", "p", "s", ":", "/", "/", "a", ".", "b", "/", "y">>

\* The values the configuration is drawn from.
Configs ==
    [enable_summary         : BOOLEAN,
     summary_prefix         : {<<>>, CustomPrefix, DefaultPrefix},
     blacklist_groups       : {<<>>, << <<"1">> >>},
     trigger_keywords       : {<<>>, << <<"k">>, <<"q">> >>},
     blacklist_keywords     : {<<>>, << <<"/", "x">> >>},
     max_retries            : 0..MaxRetries,
     enable_llm_postprocess : BOOLEAN,
     enable_translation     : BOOLEAN]

\* Message texts: empty, without a URL, with a URL (with and without a
\* trigger keyword), and carrying a summary marker.
Texts ==
    {<<>>,
     <<"k">>,
     <<"k", " ">> \o UrlX \o <<",", " ", "k">>,
     <<"(">> \o UrlY \o <<")">>,
     PlainMarker \o <<NL>> \o UrlY \o <<NL, "s">>,
     CustomPrefix \o <<NL>> \o UrlY \o <<NL, "k">>}

SelfId == "bot"

Senders == {SelfId, "user"}

ComponentLists == {<<"Plain">>, <<"Reply", "Plain">>, <<"Plain", "Forward">>}

GroupIds == {<<>>, <<"g", "1">>, <<"g", "2">>}

\* An AstrMessageEvent, as far as on_message reads it.
Event(sender, comps, group, text) ==
    [sender_id |-> sender, self_id |-> SelfId, message |-> comps,
     group_id |-> group, message_str |-> text]

Messages ==
    {Event(s, c, g, x) : s \in Senders, c \in ComponentLists, g \in GroupIds, x \in Texts}

NoMessage == Event("nobody", <<>>, <<>>, <<>>)

(***************************************************************************)
(* The message filter: rules 1-5 of on_message.                            *)
(***************************************************************************)
\* A guard that knows the two fixed markers only.
_is_summary_message_fixed(prefix, text) ==
    \E m \in {DefaultPrefix, PlainMarker} : Contains(m, text)

_is_summary_message(prefix, text) ==
    \E m \in {prefix, DefaultPrefix, PlainMarker} : m # <<>> /\ Contains(m, text)

\* A filter that tests the summary switch only after the group blacklist.
DecideSwitchLate(m, c) ==
    IF m.sender_id = m.self_id THEN "SkipSelf"
    ELSE IF \E i \in DOMAIN m.message : m.message[i] \in {"Forward", "Reply"}
        THEN "SkipForwardedOrQuoted"
    ELSE IF m.group_id # <<>> /\ AnyIn(c.blacklist_groups, m.group_id)
        THEN "SkipBlacklistedGroup"
    ELSE IF ~c.enable_summary THEN "SkipDisabled"
    ELSE IF m.message_str = <<>> THEN "SkipEmpty"
    ELSE IF _is_summary_message(c.summary_prefix, m.message_str)
        THEN "SkipAlreadySummary"
    ELSE IF c.trigger_keywords # <<>> /\ ~AnyIn(c.trigger_keywords, m.message_str)
        THEN "SkipNoTrigger"
    ELSE "Proceed"

\* A filter without the guard against the bot's own messages.
DecideNoSelfGuard(m, c) ==
    IF \E i \in DOMAIN m.message : m.message[i] \in {"Forward", "Reply"}
        THEN "SkipForwardedOrQuoted"
    ELSE IF ~c.enable_summary THEN "SkipDisabled"
    ELSE IF m.group_id # <<>> /\ AnyIn(c.blacklist_groups, m.group_id)
        THEN "SkipBlacklistedGroup"
    ELSE IF m.message_str = <<>> THEN "SkipEmpty"
    ELSE IF _is_summary_message(c.summary_prefix, m.message_str)
        THEN "SkipAlreadySummary"
    ELSE IF c.trigger_keywords # <<>> /\ ~AnyIn(c.trigger_keywords, m.message_str)
        THEN "SkipNoTrigger"
    ELSE "Proceed"

\* The early returns of on_message in their order, named as the filter
\* decisions; Proceed is reaching the call of _extract_urls.
Decide(m, c) ==
    IF m.sender_id = m.self_id THEN "SkipSelf"
    ELSE IF \E i \in DOMAIN m.message : m.message[i] \in {"Forward", "Reply"}
        THEN "SkipForwardedOrQuoted"
    ELSE IF ~c.enable_summary THEN "SkipDisabled"
    ELSE IF m.group_id # <<>> /\ AnyIn(c.blacklist_groups, m.group_id)
        THEN "SkipBlacklistedGroup"
    ELSE IF m.message_str = <<>> THEN "SkipEmpty"
    ELSE IF _is_summary_message(c.summary_prefix, m.message_str)
        THEN "SkipAlreadySummary"
    ELSE IF c.trigger_keywords # <<>> /\ ~AnyIn(c.trigger_keywords, m.message_str)
        THEN "SkipNoTrigger"
    ELSE "Proceed"

\* A blacklist that compares the whole URL with each keyword.
is_blacklisted_exact(c, u) == \E i \in DOMAIN c.blacklist_keywords : c.blacklist_keywords[i] = u

\* is_blacklisted(url) of on_message.
is_blacklisted(c, u) == AnyIn(c.blacklist_keywords, u)

\* A result that always starts with the prefix line.
plain_result_prefixed(prefix, u, summary) ==
    IF Truthy(summary) THEN <<Join(<<prefix, u, summary.val>>, NL)>> ELSE <<>>

\* The result on_message yields for a URL and what _get_url_summary
\* returned for it: a list of at most one text.
plain_result(prefix, u, summary) ==
    IF Truthy(summary)
    THEN LET parts == IF prefix # <<>> THEN <<prefix, u, summary.val>>
                      ELSE <<u, summary.val>>
         IN  <<Join(parts, NL)>>
    ELSE <<>>

(***************************************************************************)
(* The upstream service and _fetch_summary_from_service.                   *)
(***************************************************************************)
HttpOk == 200

Statuses == {HttpOk, 201, 404, 500}

SummaryTexts == {<<" ", "s", " ">>, <<"ZH", "s">>, <<" ">>}

\* A response body by its shape at both nesting levels: the outer text
\* (not JSON, a JSON list, a JSON object), its "result" member, the "body"
\* member of that, the text of "body" decoded in turn, and its "summary"
\* member with its text.
Body(outer, res, body, inner, summary, text) ==
    [outer |-> outer, result |-> res, body |-> body, inner |-> inner,
     summary |-> summary, text |-> text]

GoodBody(text) == Body("object", "object", "string", "object", "string", text)

MalformedBodies ==
    {Body("notjson", "missing", "missing", "invalid", "missing", <<>>),
     Body("list", "missing", "missing", "invalid", "missing", <<>>),
     Body("object", "missing", "missing", "invalid", "missing", <<>>),
     Body("object", "null", "missing", "invalid", "missing", <<>>),
     Body("object", "object", "missing", "invalid", "missing", <<>>),
     Body("object", "object", "number", "invalid", "missing", <<>>),
     Body("object", "object", "empty", "invalid", "missing", <<>>),
     Body("object", "object", "string", "invalid", "missing", <<>>),
     Body("object", "object", "string", "list", "missing", <<>>),
     Body("object", "object", "string", "object", "missing", <<>>),
     Body("object", "object", "string", "object", "number", <<>>),
     Body("object", "object", "string", "object", "string", <<>>)}

Bodies == {GoodBody(x) : x \in SummaryTexts} \cup MalformedBodies

\* What the request of one attempt ends with: the timeout of the session, a
\* connection error, or a response with a status and a body.
Reply(kind, status, body) == [kind |-> kind, status |-> status, body |-> body]

\* The body of an error page.
ErrorBody == Body("notjson", "missing", "missing", "invalid", "missing", <<>>)

Responses ==
    {Reply("timeout", 0, GoodBody(<<>>)), Reply("connerror", 0, GoodBody(<<>>))}
    \cup {Reply("http", HttpOk, b) : b \in Bodies}
    \cup {Reply("http", st, b) : st \in Statuses \ {HttpOk},
                                 b \in {ErrorBody, GoodBody(<<" ", "s", " ">>),
                                        GoodBody(<<>>)}}

NoResponse == Reply("none", 0, GoodBody(<<>>))

\* The outcome of a call: the exception it raises ("none" when it returns)
\* and the value it returns.
Raises(exc) == [raised |-> exc, value |-> None]

Returns(v) == [raised |-> "none", value |-> v]

\* A parser that takes every 2xx status for a success.
_fetch_summary_any_2xx(r) ==
    LET b == r.body
    IN  IF r.kind = "timeout" THEN Raises("TimeoutError")
        ELSE IF r.kind = "connerror" THEN Raises("ClientError")
        ELSE IF r.status \notin 200..299 THEN Raises("ValueError")
        ELSE IF b.outer = "notjson" THEN Raises("ValueError")
        ELSE IF b.outer # "object" THEN Raises("AttributeError")
        ELSE IF b.result = "null" THEN Raises("AttributeError")
        ELSE IF b.result = "missing" \/ b.body # "string" THEN Raises("ValueError")
        ELSE IF b.inner = "invalid" THEN Raises("JSONDecodeError")
        ELSE IF b.inner # "object" THEN Raises("AttributeError")
        ELSE IF b.summary # "string" \/ b.text = <<>> THEN Raises("ValueError")
        ELSE Returns(Some(Strip(b.text)))

\* A parser that returns None, instead of raising, when the decoded inner
\* object has no usable summary.
_fetch_summary_lenient(r) ==
    LET b == r.body
    IN  IF r.kind = "timeout" THEN Raises("TimeoutError")
        ELSE IF r.kind = "connerror" THEN Raises("ClientError")
        ELSE IF r.status # HttpOk THEN Raises("ValueError")
        ELSE IF b.outer = "notjson" THEN Raises("ValueError")
        ELSE IF b.outer # "object" THEN Raises("AttributeError")
        ELSE IF b.result = "null" THEN Raises("AttributeError")
        ELSE IF b.result = "missing" \/ b.body # "string" THEN Raises("ValueError")
        ELSE IF b.inner = "invalid" THEN Raises("JSONDecodeError")
        ELSE IF b.inner # "object" THEN Raises("AttributeError")
        ELSE IF b.summary # "string" \/ b.text = <<>> THEN Returns(None)
        ELSE Returns(Some(Strip(b.text)))

\* _fetch_summary_from_service: the outcome for the reply r.
_fetch_summary_from_service(r) ==
    LET b == r.body
    IN  IF r.kind = "timeout" THEN Raises("TimeoutError")
        ELSE IF r.kind = "connerror" THEN Raises("ClientError")
        ELSE IF r.status # HttpOk THEN Raises("ValueError")
        ELSE IF b.outer = "notjson" THEN Raises("ValueError")
        ELSE IF b.outer # "object" THEN Raises("AttributeError")
        ELSE IF b.result = "null" THEN Raises("AttributeError")
        ELSE IF b.result = "missing" \/ b.body # "string" THEN Raises("ValueError")
        ELSE IF b.inner = "invalid" THEN Raises("JSONDecodeError")
        ELSE IF b.inner # "object" THEN Raises("AttributeError")
        ELSE IF b.summary # "string" \/ b.text = <<>> THEN Raises("ValueError")
        ELSE Returns(Some(Strip(b.text)))

\* A handler that catches the timeout only.
CatchesTimeoutOnly(exc) == exc = "TimeoutError"

\* except asyncio.TimeoutError / except Exception of _get_url_summary and
\* the except Exception clauses of on_message: CancelledError is no Exception.
\* Except clauses that catch the cancellation too, as `except Exception`
\* did while CancelledError derived from Exception.
CatchesCancellation(exc) == TRUE

Catches(exc) == exc # "CancelledError"

\* A retry loop that also sleeps after its last attempt.
ShouldSleepAlways(att, max_retries) == att < max_retries

\* The test before asyncio.sleep in _get_url_summary.
ShouldSleep(att, max_retries) == att < max_retries - 1

\* The argument of asyncio.sleep.
BackoffSeconds(att) == 2 ^ att

(***************************************************************************)
(* The refinement stage.                                                   *)
(***************************************************************************)
\* What provider lookup gives: a provider, None, or an exception.
ProviderLookups == {"found", "none", "raises"}

\* What text_chat gives: an exception, no response object, a response
\* without completion_text, or a response with a completion text.
LlmReply(kind, text) == [kind |-> kind, text |-> text]

NoCompletion == LlmReply("none", <<>>)

LlmReplies ==
    {LlmReply("raise", <<>>), LlmReply("none", <<>>), LlmReply("notext", <<>>),
     LlmReply("text", <<>>), LlmReply("text", <<" ", NL>>),
     LlmReply("text", <<" ", "q", NL>>), LlmReply("text", <<"ZH", "q">>)}

\* A step of a stage that may suspend: return a value, raise, or call the
\* completion capability.
Step(op, val) == [op |-> op, val |-> val]

\* _postprocess_with_llm up to the call of text_chat.
_postprocess_with_llm(c, summary, lookup) ==
    IF ~c.enable_llm_postprocess THEN Step("return", summary)
    ELSE IF lookup = "raises" THEN Step("raise", summary)
    ELSE IF lookup = "none" THEN Step("return", summary)
    ELSE Step("call", summary)

\* _postprocess_with_llm from the return of text_chat on.
_postprocess_with_llm_reply(summary, reply) ==
    IF reply.kind = "raise" THEN summary
    ELSE IF reply.kind = "text" /\ reply.text # <<>>
        THEN IF Strip(reply.text) # <<>> THEN Strip(reply.text) ELSE summary
    ELSE summary

(***************************************************************************)
(* The state machine: one task per incoming message.                       *)
(***************************************************************************)
Tasks == DOMAIN pc

\* The locals of one run of on_message, before its first line.
FreshRun(t) ==
    /\ decision' = [decision EXCEPT ![t] = "Pending"]
    /\ extracted' = [extracted EXCEPT ![t] = FALSE]
    /\ url' = [url EXCEPT ![t] = <<>>]
    /\ attempt' = [attempt EXCEPT ![t] = 0]
    /\ calls' = [calls EXCEPT ![t] = 0]
    /\ sleeps' = [sleeps EXCEPT ![t] = <<>>]
    /\ inflight' = [inflight EXCEPT ![t] = NoResponse]
    /\ fails' = [fails EXCEPT ![t] = 0]
    /\ badOnly' = [badOnly EXCEPT ![t] = TRUE]
    /\ fetched' = [fetched EXCEPT ![t] = None]
    /\ llmCalls' = [llmCalls EXCEPT ![t] = <<>>]
    /\ completion' = [completion EXCEPT ![t] = NoCompletion]
    /\ provider' = [provider EXCEPT ![t] = "unused"]
    /\ result' = [result EXCEPT ![t] = None]
    /\ outputs' = [outputs EXCEPT ![t] = <<>>]
    /\ cancelled' = [cancelled EXCEPT ![t] = "no"]
    /\ fault' = [fault EXCEPT ![t] = "none"]
    /\ caught' = [caught EXCEPT ![t] = "none"]

InitTasks(ids) ==
    /\ msg = [t \in ids |-> NoMessage]
    /\ echo = [t \in ids |-> FALSE]
    /\ pc = [t \in ids |-> "idle"]
    /\ decision = [t \in ids |-> "Pending"]
    /\ extracted = [t \in ids |-> FALSE]
    /\ url = [t \in ids |-> <<>>]
    /\ attempt = [t \in ids |-> 0]
    /\ calls = [t \in ids |-> 0]
    /\ sleeps = [t \in ids |-> <<>>]
    /\ inflight = [t \in ids |-> NoResponse]
    /\ fails = [t \in ids |-> 0]
    /\ badOnly = [t \in ids |-> TRUE]
    /\ fetched = [t \in ids |-> None]
    /\ llmCalls = [t \in ids |-> <<>>]
    /\ completion = [t \in ids |-> NoCompletion]
    /\ provider = [t \in ids |-> "unused"]
    /\ result = [t \in ids |-> None]
    /\ outputs = [t \in ids |-> <<>>]
    /\ cancelled = [t \in ids |-> "no"]
    /\ fault = [t \in ids |-> "none"]
    /\ caught = [t \in ids |-> "none"]
    /\ chat = {}

Init ==
    /\ cfg \in Configs
    /\ InitTasks({1})

\* The statements of on_message that an input can make raise: an accessor
\* of the event in the filter (lines 56-80), is_blacklisted (line 103, a
\* blacklist_keywords entry that is not a string), event.plain_result (line
\* 113).
Faults == {"none", "filter", "blacklist", "result"}

\* The framework hands one of the messages `msgs` to on_message; `faults`
\* are the statements that may raise for it.
DeliverWith(t, msgs, faults) ==
    /\ pc[t] = "idle"
    /\ \E m \in msgs : msg' = [msg EXCEPT ![t] = m]
    /\ \E f \in faults : fault' = [fault EXCEPT ![t] = f]
    /\ pc' = [pc EXCEPT ![t] = "start"]
    /\ UNCHANGED <<cfg, cancelled, caught, echo, decision, extracted, url, attempt,
                   calls, sleeps, inflight, fails, badOnly, fetched, llmCalls,
                   completion, provider, result, outputs, chat>>

\* The framework hands a group message to on_message.
Deliver(t) ==
    /\ pc[t] = "idle"
    /\ \E m \in Messages : msg' = [msg EXCEPT ![t] = m]
    /\ pc' = [pc EXCEPT ![t] = "start"]
    /\ UNCHANGED <<cfg, cancelled, fault, caught, echo, decision, extracted, url, attempt,
                   calls, sleeps, inflight, fails, badOnly, fetched, llmCalls,
                   completion, provider, result, outputs, chat>>

\* The text the pipeline emitted last comes back as a group message (the
\* platform echoes it, or a member quotes or reposts it), and on_message
\* runs on it.
Redeliver(t) ==
    /\ pc[t] = "done"
    /\ \E x \in chat, s \in Senders, c \in ComponentLists, g \in GroupIds :
           msg' = [msg EXCEPT ![t] = Event(s, c, g, x)]
    /\ echo' = [echo EXCEPT ![t] = TRUE]
    /\ pc' = [pc EXCEPT ![t] = "start"]
    /\ FreshRun(t)
    /\ UNCHANGED <<cfg, chat>>

\* _get_url_summary returns res to on_message, which yields the result for
\* the URL, if any, and ends (the list of URLs has one element).
Finish(t, res) ==
    LET out == IF Truthy(res) /\ fault[t] = "result" THEN <<>>
               ELSE plain_result(cfg.summary_prefix, url[t][1], res)
    IN  /\ result' = [result EXCEPT ![t] = res]
        /\ outputs' = [outputs EXCEPT ![t] = @ \o out]
        /\ chat' = IF out = <<>> THEN chat ELSE Range(out)
        /\ caught' = IF Truthy(res) /\ fault[t] = "result"
                     THEN [caught EXCEPT ![t] = "url"] ELSE caught
        /\ pc' = [pc EXCEPT ![t] = "done"]

\* An exception raised inside the try of the retry loop: an except clause
\* ends the iteration, then the sleep test; an exception no clause catches
\* leaves _get_url_summary and on_message.
AttemptRaises(t, exc) ==
    IF Catches(exc)
    THEN /\ fails' = [fails EXCEPT ![t] = @ + 1]
         /\ IF ShouldSleep(attempt[t], cfg.max_retries)
            THEN /\ sleeps' = [sleeps EXCEPT ![t] = Append(@, BackoffSeconds(attempt[t]))]
                 /\ pc' = [pc EXCEPT ![t] = "sleep"]
                 /\ UNCHANGED <<result, outputs, chat, caught>>
            ELSE /\ Finish(t, None)
                 /\ UNCHANGED sleeps
    ELSE /\ pc' = [pc EXCEPT ![t] = "raised"]
         /\ UNCHANGED <<fails, sleeps, result, outputs, chat, caught>>

\* on_message from its first line to its first suspension: the filter, the
\* extraction, the URL blacklist and the entry of _get_url_summary up to the
\* first request.
OnMessage(t) ==
    /\ pc[t] = "start"
    /\ LET d    == Decide(msg[t], cfg)
           urls == _extract_urls(msg[t].message_str)
       IN  IF fault[t] = "filter"
           THEN /\ caught' = [caught EXCEPT ![t] = "message"]
                /\ pc' = [pc EXCEPT ![t] = "done"]
                /\ UNCHANGED <<decision, extracted, url, calls>>
           ELSE /\ decision' = [decision EXCEPT ![t] = d]
                /\ IF d # "Proceed"
                   THEN /\ pc' = [pc EXCEPT ![t] = "done"]
                        /\ UNCHANGED <<extracted, url, calls, caught>>
                   ELSE /\ extracted' = [extracted EXCEPT ![t] = TRUE]
                        /\ url' = [url EXCEPT ![t] = urls]
                        /\ IF urls # <<>> /\ fault[t] = "blacklist"
                           THEN /\ caught' = [caught EXCEPT ![t] = "message"]
                                /\ pc' = [pc EXCEPT ![t] = "done"]
                                /\ UNCHANGED calls
                           ELSE IF urls = <<>> \/ is_blacklisted(cfg, urls[1])
                                   \/ cfg.max_retries <= 0
                           THEN /\ pc' = [pc EXCEPT ![t] = "done"]
                                /\ UNCHANGED <<calls, caught>>
                           ELSE /\ pc' = [pc EXCEPT ![t] = "request"]
                                /\ calls' = [calls EXCEPT ![t] = 1]
                                /\ UNCHANGED caught
    /\ UNCHANGED <<cfg, cancelled, fault, msg, echo, attempt, sleeps, inflight, fails,
                   badOnly, fetched, llmCalls, completion, provider, result,
                   outputs, chat>>

\* The upstream service (or the timeout of the session) answers the request.
UpstreamReplies(t) ==
    /\ pc[t] = "request"
    /\ \E r \in Responses : inflight' = [inflight EXCEPT ![t] = r]
    /\ pc' = [pc EXCEPT ![t] = "response"]
    /\ UNCHANGED <<cfg, cancelled, fault, caught, msg, echo, decision, extracted, url,
                   attempt, calls, sleeps, fails, badOnly, fetched, llmCalls,
                   completion, provider, result, outputs, chat>>

\* A 2xx response whose body is malformed at either nesting level.
Malformed2xx(r) ==
    r.kind = "http" /\ r.status \in 200..299 /\ r.body \in MalformedBodies

\* The rest of the iteration once the request is over: the parsing of
\* _fetch_summary_from_service, then lines 195-200 of _get_url_summary with
\* the refinement stage up to its suspension, or the except clauses and the
\* sleep test.
HandleResponse(t) ==
    /\ pc[t] = "response"
    /\ LET got == _fetch_summary_from_service(inflight[t])
       IN  /\ badOnly' = [badOnly EXCEPT ![t] = @ /\ Malformed2xx(inflight[t])]
           /\ fetched' = [fetched EXCEPT ![t] = got.value]
           /\ IF got.raised # "none"
              THEN /\ AttemptRaises(t, got.raised)
                   /\ UNCHANGED <<llmCalls, provider>>
              ELSE IF ~Truthy(got.value)
              THEN /\ Finish(t, None)
                   /\ UNCHANGED <<llmCalls, provider, fails, sleeps>>
              ELSE \E found \in IF cfg.enable_llm_postprocess
                                THEN ProviderLookups ELSE {"unused"} :
                     LET step == _postprocess_with_llm(cfg, got.value.val, found)
                     IN  /\ provider' = [provider EXCEPT ![t] = found]
                         /\ IF step.op = "raise"
                            THEN /\ AttemptRaises(t, "Exception")
                                 /\ UNCHANGED llmCalls
                            ELSE IF step.op = "return"
                            THEN /\ Finish(t, Some(step.val))
                                 /\ UNCHANGED <<llmCalls, fails, sleeps>>
                            ELSE /\ llmCalls' = [llmCalls EXCEPT ![t] = Append(@, step.val)]
                                 /\ pc' = [pc EXCEPT ![t] = "llm"]
                                 /\ UNCHANGED <<fails, sleeps, result, outputs, chat, caught>>
    /\ inflight' = [inflight EXCEPT ![t] = NoResponse]
    /\ UNCHANGED <<cfg, cancelled, fault, msg, echo, decision, extracted, url,
                   attempt, calls, completion>>

\* A loop whose counter is an attribute of the plugin, shared by the tasks.
SleepEndsSharedCounter(t) ==
    /\ pc[t] = "sleep"
    /\ attempt' = [u \in Tasks |-> attempt[t] + 1]
    /\ calls' = [calls EXCEPT ![t] = @ + 1]
    /\ pc' = [pc EXCEPT ![t] = "request"]
    /\ UNCHANGED <<cfg, cancelled, fault, caught, msg, echo, decision, extracted, url,
                   sleeps, inflight, fails, badOnly, fetched, llmCalls, completion,
                   provider, result, outputs, chat>>

\* asyncio.sleep returns; the loop starts its next iteration and request.
SleepEnds(t) ==
    /\ pc[t] = "sleep"
    /\ attempt' = [attempt EXCEPT ![t] = @ + 1]
    /\ calls' = [calls EXCEPT ![t] = @ + 1]
    /\ pc' = [pc EXCEPT ![t] = "request"]
    /\ UNCHANGED <<cfg, cancelled, fault, caught, msg, echo, decision, extracted, url, sleeps,
                   inflight, fails, badOnly, fetched, llmCalls, completion,
                   provider, result, outputs, chat>>

\* The completion capability answers text_chat, or fails.
CompletionReplies(t) ==
    /\ pc[t] = "llm"
    /\ \E reply \in LlmReplies : completion' = [completion EXCEPT ![t] = reply]
    /\ pc' = [pc EXCEPT ![t] = "completion"]
    /\ UNCHANGED <<cfg, cancelled, fault, caught, msg, echo, decision, extracted, url,
                   attempt, calls, sleeps, inflight, fails, badOnly, fetched,
                   llmCalls, provider, result, outputs, chat>>

\* The refinement stage from the return of text_chat on; _get_url_summary
\* returns its value.
HandleCompletion(t) ==
    /\ pc[t] = "completion"
    /\ Finish(t, Some(_postprocess_with_llm_reply(fetched[t].val, completion[t])))
    /\ UNCHANGED <<cfg, cancelled, fault, msg, echo, decision, extracted, url,
                   attempt, calls, sleeps, inflight, fails, badOnly, fetched,
                   llmCalls, completion, provider>>

\* The host cancels task t while it is suspended: CancelledError is raised
\* at the await of the request (line 194, inside the try of the loop), of
\* the sleep (line 207, inside the try of on_message only) or of text_chat
\* (line 170, inside the try of _postprocess_with_llm).
Cancel(t) ==
    /\ pc[t] \in {"request", "response", "sleep", "llm", "completion"}
    /\ cancelled' = [cancelled EXCEPT ![t] =
                         IF pc[t] \in {"request", "response"} THEN "request"
                         ELSE IF pc[t] = "sleep" THEN "sleep" ELSE "llm"]
    /\ inflight' = [inflight EXCEPT ![t] = NoResponse]
    /\ IF pc[t] \in {"request", "response"}
       THEN AttemptRaises(t, "CancelledError")
       ELSE IF pc[t] = "sleep"
       THEN /\ IF Catches("CancelledError")
               THEN /\ pc' = [pc EXCEPT ![t] = "done"]
                    /\ caught' = [caught EXCEPT ![t] = "url"]
               ELSE /\ pc' = [pc EXCEPT ![t] = "raised"]
                    /\ UNCHANGED caught
            /\ UNCHANGED <<fails, sleeps, result, outputs, chat>>
       ELSE /\ IF Catches("CancelledError")
               THEN Finish(t, Some(fetched[t].val))
               ELSE /\ pc' = [pc EXCEPT ![t] = "raised"]
                    /\ UNCHANGED <<result, outputs, chat, caught>>
            /\ UNCHANGED <<fails, sleeps>>
    /\ UNCHANGED <<cfg, fault, msg, echo, decision, extracted, url, attempt,
                   calls, badOnly, fetched, llmCalls, completion, provider>>

Next ==
    \/ \E t \in Tasks : Deliver(t)
    \/ \E t \in Tasks : OnMessage(t)
    \/ \E t \in Tasks : UpstreamReplies(t)
    \/ \E t \in Tasks : HandleResponse(t)
    \/ \E t \in Tasks : SleepEnds(t)
    \/ \E t \in Tasks : CompletionReplies(t)
    \/ \E t \in Tasks : HandleCompletion(t)

Spec == Init /\ [][Next]_vars

\* The pipeline with its own output coming back as input. The options that
\* neither the filter nor the output depend on are fixed.
InitChat ==
    /\ cfg \in {c \in Configs : /\ c.max_retries = DefaultRetries
                               /\ c.blacklist_keywords = <<>>
                               /\ ~c.enable_translation}
    /\ InitTasks({1})

NextChat ==
    \/ Next
    \/ \E t \in Tasks : Redeliver(t)

SpecChat == InitChat /\ [][NextChat]_vars

\* The options the filter reads set so that every message with a URL
\* passes, and enable_translation, which nothing reads, off.
PassingConfigs ==
    {c \in Configs : /\ c.enable_summary
                     /\ c.blacklist_groups = <<>>
                     /\ c.trigger_keywords = <<>>
                     /\ c.blacklist_keywords = <<>>
                     /\ ~c.enable_translation}

\* The pipeline under a host that may cancel a task.
InitCancel ==
    /\ cfg \in PassingConfigs
    /\ InitTasks({1})

NextCancel ==
    \/ Next
    \/ \E t \in Tasks : Cancel(t)

SpecCancel == InitCancel /\ [][NextCancel]_vars

\* The pipeline on inputs that make a statement of on_message raise.
InitFaults ==
    /\ cfg \in {c \in PassingConfigs : c.max_retries \in {1, DefaultRetries}}
    /\ InitTasks({1})

\* on_message has returned; the framework has the next message for it.
NextMessage(t) ==
    /\ pc[t] = "done"
    /\ msg' = [msg EXCEPT ![t] = NoMessage]
    /\ pc' = [pc EXCEPT ![t] = "idle"]
    /\ FreshRun(t)
    /\ UNCHANGED <<cfg, echo, chat>>

NextFaults ==
    \/ Next
    \/ \E t \in Tasks : DeliverWith(t, Messages, Faults \ {"none"})
    \/ \E t \in Tasks : NextMessage(t)

SpecFaults == InitFaults /\ [][NextFaults]_vars

\* Two messages handled by two tasks of the same plugin instance.
TwoMessages ==
    {Event("user", <<"Plain">>, <<"g", "2">>, <<"k", " ">> \o UrlX \o <<",", " ", "k">>),
     Event("user", <<"Plain">>, <<>>, <<"(">> \o UrlY \o <<")">>)}

InitTwo ==
    /\ cfg \in {c \in PassingConfigs : /\ c.max_retries = DefaultRetries
                                        /\ c.summary_prefix = DefaultPrefix}
    /\ InitTasks({1, 2})

NextTwo ==
    \/ \E t \in Tasks : DeliverWith(t, TwoMessages, {"none"})
    \/ \E t \in Tasks : OnMessage(t)
    \/ \E t \in Tasks : UpstreamReplies(t)
    \/ \E t \in Tasks : HandleResponse(t)
    \/ \E t \in Tasks : SleepEnds(t)
    \/ \E t \in Tasks : CompletionReplies(t)
    \/ \E t \in Tasks : HandleCompletion(t)

SpecTwo == InitTwo /\ [][NextTwo]_vars

\* The extractor on noisy text: a URL, bare or wrapped, followed by up to
\* MaxTail characters of punctuation, parentheses of both styles and text.
HostOnly == <<"h", "t", "t", "p", "s", ":", "/", "/", "a", ".", "b">>

UrlOpen == <<"H", "T", "T", "P", ":", "/", "/", "a", ".", "b", "/", "(", "x">>

TailChars == TrailingPunct \cup {"(", "FW(", "FW)", "y"}

Tails == UNION {[1..n -> TailChars] : n \in 0..MaxTail}

ExtractTexts ==
    {pre \o base \o tail : pre \in {<<>>, <<"s", " ", "(">>},
                           base \in {UrlX, HostOnly, UrlOpen},
                           tail \in Tails}

InitExtract ==
    /\ cfg \in {c \in Configs : /\ c.enable_summary
                               /\ c.summary_prefix = DefaultPrefix
                               /\ c.blacklist_groups = <<>>
                               /\ c.trigger_keywords = <<>>
                               /\ c.blacklist_keywords = <<>>
                               /\ c.max_retries = DefaultRetries
                               /\ ~c.enable_llm_postprocess
                               /\ ~c.enable_translation}
    /\ \E x \in ExtractTexts : msg = [t \in {1} |-> Event("user", <<"Plain">>, <<>>, x)]
    /\ echo = [t \in {1} |-> FALSE]
    /\ pc = [t \in {1} |-> "start"]
    /\ decision = [t \in {1} |-> "Pending"]
    /\ extracted = [t \in {1} |-> FALSE]
    /\ url = [t \in {1} |-> <<>>]
    /\ attempt = [t \in {1} |-> 0]
    /\ calls = [t \in {1} |-> 0]
    /\ sleeps = [t \in {1} |-> <<>>]
    /\ inflight = [t \in {1} |-> NoResponse]
    /\ fails = [t \in {1} |-> 0]
    /\ badOnly = [t \in {1} |-> TRUE]
    /\ fetched = [t \in {1} |-> None]
    /\ llmCalls = [t \in {1} |-> <<>>]
    /\ completion = [t \in {1} |-> NoCompletion]
    /\ provider = [t \in {1} |-> "unused"]
    /\ result = [t \in {1} |-> None]
    /\ outputs = [t \in {1} |-> <<>>]
    /\ cancelled = [t \in {1} |-> "no"]
    /\ fault = [t \in {1} |-> "none"]
    /\ caught = [t \in {1} |-> "none"]
    /\ chat = {}

NextExtract == \E t \in Tasks : OnMessage(t)

SpecExtract == InitExtract /\ [][NextExtract]_vars

(***************************************************************************)
(* Properties.                                                             *)
(***************************************************************************)
\* C1: with max_retries = N, one call of _get_url_summary makes at most N
\* upstream calls and sleeps at most N - 1 times (never, when N = 0); the
\* i-th sleep (0-indexed) lasts 2^i seconds; a task sleeps only after an
\* attempt that failed and while another attempt remains, and every sleep
\* that ended was followed by the next attempt, so no sleep follows the last
\* attempt or a successful one.
RetryCountBound ==
    \A t \in Tasks :
        LET N == cfg.max_retries
        IN  /\ calls[t] <= N
            /\ Len(sleeps[t]) <= (IF N >= 1 THEN N - 1 ELSE 0)
            /\ \A i \in DOMAIN sleeps[t] : sleeps[t][i] = 2 ^ (i - 1)
            /\ Len(sleeps[t]) <= fails[t]
            /\ pc[t] = "sleep" =>
                   /\ Len(sleeps[t]) = calls[t]
                   /\ fails[t] = calls[t]
                   /\ calls[t] < N
                   /\ ~result[t].some
            /\ (pc[t] # "sleep" /\ calls[t] > 0) => Len(sleeps[t]) = calls[t] - 1

\* A fetch that used three attempts and slept 1 s, then 2 s.
RetryCountBoundWitness ==
    \E t \in Tasks :
        /\ pc[t] = "done"
        /\ cfg.max_retries = 3
        /\ calls[t] = 3
        /\ sleeps[t] = <<1, 2>>

\* The rules of the message filter, in the order of the rule list.
RuleNames ==
    <<"SkipSelf", "SkipForwardedOrQuoted", "SkipDisabled", "SkipBlacklistedGroup",
      "SkipEmpty", "SkipAlreadySummary", "SkipNoTrigger">>

RuleMatches(m, c) ==
    <<m.sender_id = m.self_id,
      {"Forward", "Reply"} \cap Range(m.message) # {},
      ~c.enable_summary,
      m.group_id # <<>>
          /\ \E kw \in Range(c.blacklist_groups) : Contains(kw, m.group_id),
      Len(m.message_str) = 0,
      \/ (Len(c.summary_prefix) > 0 /\ Contains(c.summary_prefix, m.message_str))
      \/ Contains(DefaultPrefix, m.message_str)
      \/ Contains(PlainMarker, m.message_str),
      Len(c.trigger_keywords) > 0
          /\ \A kw \in Range(c.trigger_keywords) : ~Contains(kw, m.message_str)>>

FirstRule(m, c) ==
    LET hit == {i \in 1..7 : RuleMatches(m, c)[i]}
    IN  IF hit = {} THEN "Proceed" ELSE RuleNames[Min(hit)]

\* C2: once on_message has run its filter on a message, it has stopped at
\* the first matching rule of the ordered rule list, or proceeded to URL
\* extraction exactly when no rule matches; a skipped message causes no
\* upstream call, no completion call and no output.
FilterDecision ==
    \A t \in Tasks :
        decision[t] # "Pending" =>
            /\ decision[t] = FirstRule(msg[t], cfg)
            /\ extracted[t] <=> decision[t] = "Proceed"
            /\ decision[t] # "Proceed" =>
                   /\ pc[t] = "done"
                   /\ calls[t] = 0
                   /\ llmCalls[t] = <<>>
                   /\ outputs[t] = <<>>

\* A message that passes rules 1-6 and is stopped by rule 7.
FilterDecisionWitness ==
    \E t \in Tasks :
        /\ decision[t] = "SkipNoTrigger"
        /\ cfg.blacklist_groups # <<>>
        /\ msg[t].group_id # <<>>
        /\ Search(msg[t].message_str).some

\* C3: a message whose sender is the bot itself produces no output and
\* starts no upstream call, whatever its content and the configuration.
SelfMessageGuard ==
    \A t \in Tasks :
        msg[t].sender_id = msg[t].self_id =>
            /\ outputs[t] = <<>>
            /\ calls[t] = 0
            /\ pc[t] \in {"start", "done"}

\* The bot's own message, which no other rule would stop, has been handled.
SelfMessageGuardWitness ==
    \E t \in Tasks :
        /\ msg[t].sender_id = msg[t].self_id
        /\ pc[t] = "done"
        /\ DecideNoSelfGuard(msg[t], cfg) = "Proceed"
        /\ _extract_urls(msg[t].message_str) # <<>>
        /\ cfg.max_retries > 0

\* The text carries the configured prefix or one of the two fixed markers.
HasMarker(c, text) ==
    \/ (Len(c.summary_prefix) > 0 /\ Contains(c.summary_prefix, text))
    \/ Contains(DefaultPrefix, text)
    \/ Contains(PlainMarker, text)

\* One of the rules 1-4 of the filter matches the message.
EarlierRule(m, c) ==
    \E i \in 1..4 : RuleMatches(m, c)[i]

\* C4, as stated: a message equal to an emitted summary output that carries
\* the configured prefix or a fixed marker always yields SkipAlreadySummary.
EchoYieldsSkipAlreadySummary ==
    \A t \in Tasks :
        (echo[t] /\ decision[t] # "Pending" /\ HasMarker(cfg, msg[t].message_str))
            => decision[t] = "SkipAlreadySummary"

\* C4, amended: such a message is never processed; it yields
\* SkipAlreadySummary unless one of the rules 1-4 stops it first.
EchoIsSkipped ==
    \A t \in Tasks :
        (echo[t] /\ decision[t] # "Pending" /\ HasMarker(cfg, msg[t].message_str))
            => /\ decision[t] \in {"SkipSelf", "SkipForwardedOrQuoted", "SkipDisabled",
                                   "SkipBlacklistedGroup", "SkipAlreadySummary"}
               /\ ~EarlierRule(msg[t], cfg) => decision[t] = "SkipAlreadySummary"
               /\ ~extracted[t]
               /\ calls[t] = 0
               /\ outputs[t] = <<>>

\* An output under a custom prefix came back from another sender and was
\* stopped by rule 6.
EchoIsSkippedWitness ==
    \E t \in Tasks :
        /\ echo[t]
        /\ cfg.summary_prefix = CustomPrefix
        /\ msg[t].sender_id # msg[t].self_id
        /\ msg[t].message_str \in chat
        /\ decision[t] = "SkipAlreadySummary"

\* The text of one result: the prefix line if there is a prefix, the URL, the
\* summary.
FormattedOutput(prefix, u, text) ==
    IF Len(prefix) = 0 THEN u \o <<NL>> \o text
    ELSE prefix \o <<NL>> \o u \o <<NL>> \o text

\* The texts a result may carry: the summary the service returned, or the
\* completion made of it.
SummaryTextsOf(t) ==
    {fetched[t].val} \cup
    (IF llmCalls[t] = <<>> THEN {}
     ELSE {completion[t].text, Strip(completion[t].text)})

\* C5: no exception leaves _get_url_summary or on_message; when every
\* attempt for a URL has failed, _get_url_summary has returned None and
\* nothing is emitted for the URL; every emitted text belongs to a URL whose
\* fetch succeeded and carries the summary or its completion, never an
\* error text.
SilentOmission ==
    \A t \in Tasks :
        /\ pc[t] # "raised"
        /\ (pc[t] = "done" /\ calls[t] >= 1 /\ fails[t] = calls[t]) =>
               /\ calls[t] = cfg.max_retries
               /\ result[t] = None
               /\ outputs[t] = <<>>
        /\ Len(outputs[t]) <= 1
        /\ \A i \in DOMAIN outputs[t] :
               /\ Truthy(fetched[t])
               /\ fails[t] < calls[t]
               /\ \E x \in SummaryTextsOf(t) :
                      /\ Len(x) > 0
                      /\ outputs[t][i] = FormattedOutput(cfg.summary_prefix, url[t][1], x)

\* Three attempts ended in a timeout, a status 500 and a parse error.
SilentOmissionWitness ==
    \E t \in Tasks :
        /\ pc[t] = "done"
        /\ cfg.max_retries = 3
        /\ calls[t] = 3
        /\ fails[t] = 3
        /\ outputs[t] = <<>>

\* C6: for a URL whose final summary text is s, on_message emits exactly one
\* text: prefix, newline, URL, newline, s when the prefix is not empty, and
\* URL, newline, s when it is; without a summary it emits nothing.
OutputFormat ==
    \A t \in Tasks :
        pc[t] = "done" =>
            IF result[t].some /\ Len(result[t].val) > 0
            THEN outputs[t] =
                     <<FormattedOutput(cfg.summary_prefix, url[t][1], result[t].val)>>
            ELSE outputs[t] = <<>>

\* A result emitted under an empty prefix.
OutputFormatWitness ==
    \E t \in Tasks :
        /\ pc[t] = "done"
        /\ Len(cfg.summary_prefix) = 0
        /\ outputs[t] = <<UrlX \o <<NL, "s">>>>

\* The body is {"result": {"body": <JSON string>}} and the decoded inner
\* object holds a non-empty string summary.
WellFormed(b) ==
    /\ b.outer = "object" /\ b.result = "object" /\ b.body = "string"
    /\ b.inner = "object" /\ b.summary = "string" /\ Len(b.text) > 0

\* x is s without its leading and trailing whitespace.
IsTrimOf(x, s) ==
    \E i \in 1..(Len(s) + 1), j \in 0..Len(s) :
        /\ x = SubSeq(s, i, j)
        /\ \A k \in 1..(i - 1) : s[k] \in Whitespace
        /\ \A k \in (j + 1)..Len(s) : s[k] \in Whitespace
        /\ Len(x) > 0 => (x[1] \notin Whitespace /\ x[Len(x)] \notin Whitespace)

\* What the handling of the response in flight to t makes of it, for a
\* response with an HTTP status: an error for a status in `errors`, the
\* trimmed summary for a status in `successes` with a well-formed body.
HandlesAs(t, errors, successes) ==
    LET r == inflight[t]
    IN  (pc[t] = "response" /\ pc'[t] # "response" /\ r.kind = "http") =>
            /\ r.status \in errors =>
                   /\ fetched'[t] = None
                   /\ fails'[t] = fails[t] + 1
            /\ (r.status \in successes /\ WellFormed(r.body)) =>
                   /\ fetched'[t].some
                   /\ IsTrimOf(fetched'[t].val, r.body.text)

\* C7, as stated: an attempt is an error whenever the status is not 2xx,
\* and every 2xx response with a well-formed body gives the trimmed summary.
Every2xxGivesSummary ==
    [][\A t \in Tasks : HandlesAs(t, Statuses \ (200..299), Statuses \cap (200..299))]_vars

\* C7, amended: an attempt is an error whenever the status is not 200, and
\* a response of status 200 with a well-formed body gives the trimmed
\* summary.
Only200GivesSummary ==
    [][\A t \in Tasks : HandlesAs(t, Statuses \ {HttpOk}, {HttpOk})]_vars

\* The summary " s " of a response of status 200 was returned as "s".
Only200GivesSummaryWitness ==
    \E t \in Tasks :
        /\ pc[t] = "done"
        /\ fetched[t] = Some(<<"s">>)
        /\ result[t] = Some(<<"s">>)

\* C8: as long as every upstream response was 2xx and malformed, every
\* attempt has failed, nothing was returned by the parser, sent to the
\* completion capability or emitted, and the fetch goes on: it ends only
\* after max_retries attempts, with None.
ParseErrorsRetried ==
    \A t \in Tasks :
        (badOnly[t] /\ calls[t] >= 1) =>
            /\ pc[t] \in {"request", "response", "sleep", "done"}
            /\ fetched[t] = None
            /\ llmCalls[t] = <<>>
            /\ outputs[t] = <<>>
            /\ fails[t] = (IF pc[t] \in {"request", "response"} THEN calls[t] - 1
                           ELSE calls[t])
            /\ pc[t] = "done" =>
                   /\ calls[t] = cfg.max_retries
                   /\ Len(sleeps[t]) = cfg.max_retries - 1
                   /\ result[t] = None

\* Three malformed 2xx responses used up three attempts.
ParseErrorsRetriedWitness ==
    \E t \in Tasks :
        /\ badOnly[t]
        /\ pc[t] = "done"
        /\ cfg.max_retries = 3
        /\ calls[t] = 3
        /\ result[t] = None

\* What the polish stage must return for the raw summary and the completion.
PolishedText(raw, reply) ==
    IF reply.kind = "text" /\ \E i \in DOMAIN reply.text : reply.text[i] \notin Whitespace
    THEN CHOOSE x \in {SubSeq(reply.text, i, j) : i, j \in DOMAIN reply.text} :
             IsTrimOf(x, reply.text)
    ELSE raw

\* C9: once the service has returned a summary, the polish stage does not
\* raise: the task is in the completion call or has ended with a result,
\* which is the raw summary when polishing is disabled, no provider is
\* found, the lookup or the completion call fails or the completion is
\* missing, empty or blank, and the trimmed completion otherwise.
PolishNeverRaises ==
    \A t \in Tasks :
        (Truthy(fetched[t]) /\ pc[t] \notin {"request", "response"}) =>
            /\ pc[t] \in {"llm", "completion", "done"}
            /\ pc[t] = "done" =>
                   /\ result[t] = Some(IF llmCalls[t] = <<>> THEN fetched[t].val
                                       ELSE PolishedText(fetched[t].val, completion[t]))
                   /\ provider[t] = "found" <=> llmCalls[t] # <<>>
                   /\ ~cfg.enable_llm_postprocess => llmCalls[t] = <<>>

\* C10: with enable_translation on, a summary with a Chinese ideograph ends
\* as the final text unchanged and is never sent to the completion
\* capability; a summary with none is sent to it (when a provider is there
\* to send it to) and the final text is the returned translation, or the
\* raw summary when the call fails or returns nothing; at most one call is
\* made for a summary.
TranslateIfNeededMode ==
    \A t \in Tasks :
        (cfg.enable_translation /\ Truthy(fetched[t]) /\ pc[t] = "done") =>
            LET raw == fetched[t].val
            IN  /\ Len(llmCalls[t]) <= 1
                /\ Range(raw) \cap ChineseChars # {} =>
                       /\ llmCalls[t] = <<>>
                       /\ result[t] = Some(raw)
                /\ (Range(raw) \cap ChineseChars = {} /\ provider[t] \notin {"none", "raises"}) =>
                       /\ llmCalls[t] = <<raw>>
                       /\ result[t] = Some(IF completion[t].kind = "text"
                                              /\ Len(completion[t].text) > 0
                                           THEN completion[t].text ELSE raw)

\* C11: for an extracted URL that contains a blacklist_keywords entry as a
\* substring, no upstream call and no completion call is made and nothing is
\* emitted; a URL for which an upstream call was made contains no entry.
BlacklistedNeverFetched ==
    \A t \in Tasks :
        (extracted[t] /\ url[t] # <<>>) =>
            LET hit == \E kw \in Range(cfg.blacklist_keywords) : Contains(kw, url[t][1])
            IN  /\ hit => /\ pc[t] = "done"
                          /\ calls[t] = 0
                          /\ llmCalls[t] = <<>>
                          /\ outputs[t] = <<>>
                /\ calls[t] > 0 => ~hit

\* The URL http://a.b/x was extracted and dropped for the keyword "/x".
BlacklistedNeverFetchedWitness ==
    \E t \in Tasks :
        /\ decision[t] = "Proceed"
        /\ url[t] = <<UrlX>>
        /\ cfg.blacklist_keywords = << <<"/", "x">> >>
        /\ cfg.max_retries > 0
        /\ pc[t] = "done"
        /\ calls[t] = 0

\* The closing parentheses of style <<left, right>> in u in excess of the
\* opening ones.
Excess(u, left, right) ==
    Cardinality({i \in DOMAIN u : u[i] = right}) - Cardinality({i \in DOMAIN u : u[i] = left})

IsPrefixOf(u, s) == Len(u) <= Len(s) /\ \A i \in DOMAIN u : u[i] = s[i]

\* C12: every string _extract_urls returns parses into a URL with a
\* non-empty scheme and a non-empty host; the trimming never cuts into
\* either: a match of the pattern always gives one URL, which is a prefix of
\* the match with scheme http or https and the host of the match.
ExtractorValidity ==
    \A t \in Tasks :
        extracted[t] =>
            LET match == Search(msg[t].message_str)
            IN  /\ \A i \in DOMAIN url[t] :
                       /\ UrlParse(url[t][i]).scheme # <<>>
                       /\ UrlParse(url[t][i]).netloc # <<>>
                /\ match.some =>
                       /\ Len(url[t]) = 1
                       /\ IsPrefixOf(url[t][1], match.val)
                       /\ UrlParse(url[t][1]).scheme \in {<<"h", "t", "t", "p">>,
                                                          <<"h", "t", "t", "p", "s">>}
                       /\ UrlParse(url[t][1]).netloc = UrlParse(match.val).netloc
                /\ ~match.some => url[t] = <<>>

\* A raw match that both the punctuation trimming and the parenthesis loop
\* shortened.
ExtractorValidityWitness ==
    \E t \in Tasks :
        /\ extracted[t]
        /\ Search(msg[t].message_str) = Some(UrlX \o <<"FW)", ".">>)
        /\ url[t] = <<UrlX>>

\* C13: when a well-formed URL is followed in the text by a run of
\* trailing punctuation and closing parentheses of both styles, the
\* extracted URL does not end with a character of the trailing-punctuation
\* set.
NoTrailingPunctuation ==
    \A t \in Tasks :
        extracted[t] =>
            \A pre \in {<<>>, <<"s", " ", "(">>}, base \in {UrlX, HostOnly, UrlOpen}, tail \in Tails :
                (/\ msg[t].message_str = pre \o base \o tail
                 /\ tail # <<>>
                 /\ Range(tail) \subseteq TrailingPunct \cup {"FW)"}) =>
                    \A i \in DOMAIN url[t] :
                        url[t][i][Len(url[t][i])] \notin TrailingPunct

\* C14: the extracted URL never has more closing than opening parentheses
\* of either style.
ParenthesesBalanced ==
    \A t \in Tasks :
        extracted[t] =>
            \A i \in DOMAIN url[t] :
                /\ Excess(url[t][i], "(", ")") <= 0
                /\ Excess(url[t][i], "FW(", "FW)") <= 0

\* C15: _get_url_summary returns None only after max_retries upstream
\* calls: an attempt that gave no summary and is not the last allowed one
\* is always followed by another upstream call.
EveryFailureRetried ==
    \A t \in Tasks :
        (pc[t] = "done" /\ calls[t] >= 1 /\ ~result[t].some) =>
            calls[t] = cfg.max_retries

\* C16: once an upstream attempt has returned a summary, no further
\* upstream call is made for the URL, and the completion capability is
\* invoked at most once for it, whatever the refinement stage does.
RefinementNeverRetried ==
    [][\A t \in Tasks :
           Truthy(fetched[t]) => /\ calls'[t] = calls[t]
                                 /\ Len(llmCalls'[t]) <= 1]_vars

\* C17: once the host has cancelled a task suspended in an upstream
\* request, in a retry sleep or in a completion call, the task has left
\* on_message with the cancellation: from the cancellation on it starts no
\* upstream request and no sleep, makes no completion call and emits
\* nothing.
CancellationStops ==
    [][\A t \in Tasks :
           cancelled'[t] # "no" =>
               /\ pc'[t] = "raised"
               /\ calls'[t] = calls[t]
               /\ sleeps'[t] = sleeps[t]
               /\ llmCalls'[t] = llmCalls[t]
               /\ outputs'[t] = outputs[t]]_vars

\* A task cancelled in its first backoff sleep, with two attempts left.
CancellationStopsWitness ==
    \E t \in Tasks :
        /\ cancelled[t] = "sleep"
        /\ pc[t] = "raised"
        /\ cfg.max_retries = 3
        /\ calls[t] = 1
        /\ sleeps[t] = <<1>>
        /\ outputs[t] = <<>>

\* What task t holds of its message: the event, its position, the filter
\* decision, the URL list, the loop counter and what the loop did.
Locals(t) ==
    <<msg[t], pc[t], decision[t], extracted[t], url[t], attempt[t], calls[t],
      sleeps[t], inflight[t], fails[t], fetched[t], llmCalls[t], completion[t],
      provider[t], result[t], outputs[t]>>

\* Task t, suspended in a request, a sleep or a completion call, can take
\* the step that resumes it.
CanStep(t) ==
    CASE pc[t] = "request" -> ENABLED UpstreamReplies(t)
      [] pc[t] = "response" -> ENABLED HandleResponse(t)
      [] pc[t] = "sleep" -> ENABLED SleepEnds(t)
      [] pc[t] = "llm" -> ENABLED CompletionReplies(t)
      [] pc[t] = "completion" -> ENABLED HandleCompletion(t)
      [] OTHER -> TRUE

\* What the retry loop of a message handled alone allows task t to hold.
LoopAsWhenAlone(t) ==
    /\ calls[t] <= cfg.max_retries
    /\ calls[t] > 0 => attempt[t] = calls[t] - 1
    /\ sleeps[t] = [i \in 1..(IF pc[t] = "sleep" THEN attempt[t] + 1 ELSE attempt[t])
                       |-> 2 ^ (i - 1)]
    /\ llmCalls[t] \in {<<>>, <<fetched[t].val>>}
    /\ outputs[t] # <<>> =>
           outputs[t] = <<Join(<<cfg.summary_prefix, url[t][1], result[t].val>>, NL)>>

\* C18: with two tasks interleaved at their suspension points, a step of
\* one task leaves everything the other holds unchanged (its attempt
\* counter, its URL list, its calls, sleeps and outputs); the filter
\* decision and the URL list of a task are those of its own message and
\* stay as they are, and its calls, sleeps and outputs are those of a
\* message handled alone; while a task sleeps in backoff, the other can take
\* the step it is waiting to take.
MessageIsolation ==
    [][\A t \in Tasks :
           /\ pc'[t] = pc[t] => UNCHANGED Locals(t)
           /\ (pc[t] = "start" /\ pc'[t] # "start") =>
                  /\ decision'[t] = FirstRule(msg[t], cfg)
                  /\ extracted'[t] <=> decision'[t] = "Proceed"
                  /\ extracted'[t] => url'[t] = _extract_urls(msg[t].message_str)
           /\ pc[t] \notin {"idle", "start"} =>
                  UNCHANGED <<msg[t], decision[t], extracted[t], url[t]>>
           /\ LoopAsWhenAlone(t)'
           /\ pc[t] = "sleep" => \A u \in Tasks \ {t} : CanStep(u)]_vars

\* Two tasks on different URLs, one in its first sleep while the other has
\* started its second attempt.
MessageIsolationWitness ==
    /\ pc[1] = "sleep"
    /\ attempt[1] = 0
    /\ sleeps[1] = <<1>>
    /\ pc[2] = "request"
    /\ attempt[2] = 1
    /\ url[1] # url[2]

\* C19: under every configuration, a message from another sender whose
\* text is an output on_message emitted earlier is not processed again: no
\* URL extraction, no upstream call, no new output.
NoReentrancyLoop ==
    \A t \in Tasks :
        (echo[t] /\ msg[t].sender_id # msg[t].self_id) =>
            /\ ~extracted[t]
            /\ calls[t] = 0
            /\ outputs[t] = <<>>

\* The except clause the claimed boundaries give an exception raised by
\* the statement `f` of on_message for task t, "none" when the statement is
\* not reached.
ClaimedBoundary(t, f) ==
    CASE f = "filter" -> "message"
      [] f = "blacklist" -> IF extracted[t] /\ url[t] # <<>> THEN "url" ELSE "none"
      [] f = "result" -> IF Truthy(result[t]) THEN "url" ELSE "none"
      [] OTHER -> "none"

\* C20: on_message never raises; an error of the blacklist check or of
\* building the result is caught at the URL boundary (inside the loop over
\* the URLs, which goes on), an error of the filter at the message
\* boundary; a failing message changes nothing that the handling of later
\* messages reads.
ErrorBoundaries ==
    [][/\ cfg' = cfg
       /\ \A t \in Tasks :
              /\ pc'[t] # "raised"
              /\ pc'[t] = "done" => caught'[t] = ClaimedBoundary(t, fault[t])']_vars

====
